---- MODULE Spec2Model ----
(***************************************************************************)
(* The sent-packet handler of ackhandler/sent_packet_handler.go as a state *)
(* machine.  The handler is single-threaded: every public method runs to   *)
(* completion, so every method is one action.  Every method is first       *)
(* written as an operator that yields the handler after the call, the      *)
(* calls it made, in order, to the congestion controller, the RTT          *)
(* estimator and the stop-waiting manager, and what it returned; the       *)
(* action applies the operator to the state.                               *)
(***************************************************************************)
EXTENDS Integers, Sequences, FiniteSets, TLC

VARIABLES
    h,          \* the sentPacketHandler struct (lines 27-46)
    now         \* the wall clock read by time.Now()

vars == <<h, now>>

----------------------------------------------------------------------------
(* Bounds of the model *)

MaxPacketNumber == 4    \* packet numbers sent and acked are 1..MaxPacketNumber
MaxLength == 2          \* packet lengths are 0..MaxLength
MaxCarrier == 2         \* carrier packet numbers of ack frames are 1..MaxCarrier
MaxTime == 2            \* the clock runs over 1..MaxTime
MaxDelay == 1           \* congestion.RetransmissionDelay() answers 0..MaxDelay

(* Protocol constants (package protocol), in the model's units *)

RetransmissionThreshold == 1
MaxTrackedSkippedPackets == 2
DefaultRetransmissionTime == 2
MinRetransmissionTime == 1

----------------------------------------------------------------------------
(* Values *)

Nil == "nil"

ZeroTime == 0           \* time.Time{}: IsZero() holds of it alone

errPacketNumberNotIncreasing == "errPacketNumberNotIncreasing"
errEmptyPacket == "SentPacketHandler: packet cannot be empty"
errAckForUnsentPacket == "errAckForUnsentPacket"
ErrDuplicateOrOutOfOrderAck == "ErrDuplicateOrOutOfOrderAck"
ErrAckForSkippedPacket == "ErrAckForSkippedPacket"

Max(a, b) == IF a >= b THEN a ELSE b

SetMax(S) == CHOOSE x \in S : \A y \in S : y <= x

SetMin(S) == CHOOSE x \in S : \A y \in S : x <= y

(* ackhandlerlegacy.Packet, as the handler uses it *)
Packet(n, len) ==
    [PacketNumber |-> n, Length |-> len, MissingReports |-> 0, SendTime |-> ZeroTime]

(* congestion.PacketInfo{Number, Length} *)
PacketInfo(p) == [Number |-> p.PacketNumber, Length |-> p.Length]

----------------------------------------------------------------------------
(* ackhandlerlegacy.PacketList: a doubly linked list; an element is named   *)
(* by its position in the list.                                             *)

Front(l) == 1

HasElement(l, pos) == pos >= 1 /\ pos <= Len(l)

Remove(l, pos) == SubSeq(l, 1, pos - 1) \o SubSeq(l, pos + 1, Len(l))

PushBack(l, v) == Append(l, v)

----------------------------------------------------------------------------
(* frames.AckFrame: LargestAcked, LowestAcked and AckRanges, sorted         *)
(* descending, disjoint, present only when the frame reports gaps.          *)

AckRange(first, last) == [FirstPacketNumber |-> first, LastPacketNumber |-> last]

HasMissingRanges(f) == Len(f.AckRanges) > 0

AcksPacket(f, p) ==
    IF p < f.LowestAcked \/ p > f.LargestAcked THEN FALSE
    ELSE IF HasMissingRanges(f)
         THEN \E i \in 1..Len(f.AckRanges) :
                 /\ p >= f.AckRanges[i].FirstPacketNumber
                 /\ p <= f.AckRanges[i].LastPacketNumber
         ELSE TRUE

(* The maximal runs of consecutive numbers of S, highest run first *)
RECURSIVE RunsOf(_)
RunsOf(S) ==
    IF S = {} THEN <<>>
    ELSE LET last == SetMax(S)
             first == SetMin({n \in S : \A m \in n..last : m \in S})
         IN  <<AckRange(first, last)>> \o RunsOf({n \in S : n < first})

(* The well-formed frame that acknowledges exactly the numbers of S *)
FrameOf(S) ==
    [LargestAcked |-> SetMax(S),
     LowestAcked  |-> SetMin(S),
     AckRanges    |-> IF Len(RunsOf(S)) > 1 THEN RunsOf(S) ELSE <<>>]

AckFrames == {FrameOf(S) : S \in (SUBSET (1..MaxPacketNumber)) \ {{}}}

----------------------------------------------------------------------------
(* NewSentPacketHandler: every field has its zero value *)

NewSentPacketHandler ==
    [lastSentPacketNumber         |-> 0,
     lastSentPacketTime           |-> ZeroTime,
     skippedPackets               |-> <<>>,
     LargestInOrderAcked          |-> 0,
     LargestAcked                 |-> 0,
     largestReceivedPacketWithAck |-> 0,
     packetHistory                |-> <<>>,
     retransmissionQueue          |-> <<>>,
     bytesInFlight                |-> 0]

BytesInFlight(hh) == hh.bytesInFlight

GetLeastUnacked(hh) == hh.LargestInOrderAcked + 1

Init ==
    /\ h = NewSentPacketHandler
    /\ now = 1

----------------------------------------------------------------------------
(* The calls the handler makes to its collaborators *)

OnPacketSent(t, bytesInFlight, n, len, retransmittable) ==
    [call |-> "OnPacketSent", time |-> t, bytesInFlight |-> bytesInFlight,
     number |-> n, length |-> len, isRetransmittable |-> retransmittable]

OnCongestionEvent(rttUpdated, bytesInFlight, ackedPackets, lostPackets) ==
    [call |-> "OnCongestionEvent", rttUpdated |-> rttUpdated,
     bytesInFlight |-> bytesInFlight,
     ackedPackets |-> ackedPackets, lostPackets |-> lostPackets]

OnRetransmissionTimeout(packetsRetransmitted) ==
    [call |-> "OnRetransmissionTimeout", packetsRetransmitted |-> packetsRetransmitted]

UpdateRTT(sendDelta, t) ==
    [call |-> "UpdateRTT", sendDelta |-> sendDelta, time |-> t]

QueuedRetransmissionForPacketNumber(n) ==
    [call |-> "QueuedRetransmissionForPacketNumber", number |-> n]

StopWaitingReceivedAck(ackFrame) ==
    [call |-> "stopWaitingManager.ReceivedAck", largestAcked |-> ackFrame.LargestAcked]

----------------------------------------------------------------------------
(* The private methods.  They work on s, a record that holds the handler    *)
(* in s.h and the calls made so far in s.calls; pos names the list element  *)
(* they are given.                                                          *)

(* ackPacket, lines 68-84 *)
ackPacket(s, pos) ==
    LET l      == s.h.packetHistory
        packet == l[pos]
        lioa   == IF s.h.LargestInOrderAcked = packet.PacketNumber - 1
                  THEN IF HasElement(l, pos + 1)
                       THEN l[pos + 1].PacketNumber - 1
                       ELSE s.h.LargestInOrderAcked + 1
                  ELSE s.h.LargestInOrderAcked
    IN  [s EXCEPT !.h.bytesInFlight = @ - packet.Length,
                  !.h.LargestInOrderAcked = lioa,
                  !.h.packetHistory = Remove(l, pos)]

(* The loop of lines 108-113 over the element at pos and its successors *)
RECURSIVE increaseLargestInOrderAcked(_, _, _, _)
increaseLargestInOrderAcked(l, pos, largestInOrderAcked, largestAcked) ==
    IF ~HasElement(l, pos) THEN largestInOrderAcked
    ELSE IF largestInOrderAcked = largestAcked THEN largestInOrderAcked
    ELSE increaseLargestInOrderAcked(l, pos + 1, l[pos].PacketNumber - 1, largestAcked)

(* A fault: the length of the queued packet stays charged to bytesInFlight *)
queuePacketForRetransmission_KeepsBytes(s, pos) ==
    LET l      == s.h.packetHistory
        packet == l[pos]
        lioa   == IF packet.PacketNumber = s.h.LargestInOrderAcked + 1
                  THEN increaseLargestInOrderAcked(l, pos, s.h.LargestInOrderAcked,
                                                   s.h.LargestAcked)
                  ELSE s.h.LargestInOrderAcked
    IN  [s EXCEPT !.h.retransmissionQueue = Append(@, packet),
                  !.h.LargestInOrderAcked = lioa,
                  !.h.packetHistory = Remove(l, pos),
                  !.calls = Append(@, QueuedRetransmissionForPacketNumber(packet.PacketNumber))]

(* queuePacketForRetransmission, lines 99-121 *)
queuePacketForRetransmission(s, pos) ==
    LET l      == s.h.packetHistory
        packet == l[pos]
        lioa   == IF packet.PacketNumber = s.h.LargestInOrderAcked + 1
                  THEN increaseLargestInOrderAcked(l, pos, s.h.LargestInOrderAcked,
                                                   s.h.LargestAcked)
                  ELSE s.h.LargestInOrderAcked
    IN  [s EXCEPT !.h.bytesInFlight = @ - packet.Length,
                  !.h.retransmissionQueue = Append(@, packet),
                  !.h.LargestInOrderAcked = lioa,
                  !.h.packetHistory = Remove(l, pos),
                  !.calls = Append(@, QueuedRetransmissionForPacketNumber(packet.PacketNumber))]

(* A fault: the packet is declared lost when it reaches the threshold *)
nackPacket_AtThreshold(s, pos) ==
    LET s1     == [s EXCEPT !.h.packetHistory[pos].MissingReports = @ + 1]
        packet == s1.h.packetHistory[pos]
    IN  IF packet.MissingReports >= RetransmissionThreshold
        THEN [s |-> queuePacketForRetransmission(s1, pos), p |-> <<packet>>]
        ELSE [s |-> s1, p |-> <<>>]

(* nackPacket, lines 86-96: the state after it, and in p the packet it      *)
(* returns (<<>> for nil)                                                   *)
nackPacket(s, pos) ==
    LET s1     == [s EXCEPT !.h.packetHistory[pos].MissingReports = @ + 1]
        packet == s1.h.packetHistory[pos]
    IN  IF packet.MissingReports > RetransmissionThreshold
        THEN [s |-> queuePacketForRetransmission(s1, pos), p |-> <<packet>>]
        ELSE [s |-> s1, p |-> <<>>]

(* garbageCollectSkippedPackets, lines 351-359 *)
garbageCollectSkippedPackets(hh) ==
    LET sk          == hh.skippedPackets
        deleteIndex == SetMax({0} \cup {i \in 1..Len(sk) : sk[i] <= hh.LargestInOrderAcked})
    IN  [hh EXCEPT !.skippedPackets = SubSeq(sk, deleteIndex + 1, Len(sk))]

----------------------------------------------------------------------------
(* SentPacket, lines 123-156 *)

(* The loop of lines 128-134 *)
RECURSIVE trackSkippedPackets(_, _, _)
trackSkippedPackets(skippedPackets, p, packetNumber) ==
    IF ~(p < packetNumber) THEN skippedPackets
    ELSE LET sk == Append(skippedPackets, p)
         IN  trackSkippedPackets(
                 IF Len(sk) > MaxTrackedSkippedPackets THEN Tail(sk) ELSE sk,
                 p + 1, packetNumber)

(* The method: the handler after it, the calls it made, what it returned *)
sentPacket(hh, n, len) ==
    IF n <= hh.lastSentPacketNumber
    THEN [h |-> hh, calls |-> <<>>, err |-> errPacketNumberNotIncreasing]
    ELSE
    LET h1     == [hh EXCEPT
                     !.skippedPackets =
                         trackSkippedPackets(@, hh.lastSentPacketNumber + 1, n),
                     !.lastSentPacketTime = now]
        packet == [Packet(n, len) EXCEPT !.SendTime = now]
    IN  IF len = 0
        THEN [h |-> h1, calls |-> <<>>, err |-> errEmptyPacket]
        ELSE LET h2 == [h1 EXCEPT
                          !.bytesInFlight = @ + len,
                          !.lastSentPacketNumber = n,
                          !.packetHistory = PushBack(@, packet)]
             IN  [h |-> h2,
                  calls |-> <<OnPacketSent(now, BytesInFlight(h2), n, len, TRUE)>>,
                  err |-> Nil]

SentPacket(n, len) ==
    /\ h' = sentPacket(h, n, len).h
    /\ now' = now

(* The clock advances between method calls *)
Tick ==
    /\ now < MaxTime
    /\ now' = now + 1
    /\ UNCHANGED h

----------------------------------------------------------------------------
(* ReceivedAck, lines 158-263 *)

(* Line 159 *)
isAckForUnsentPacket(hh, ackFrame) == ackFrame.LargestAcked > hh.lastSentPacketNumber

(* A fault: an ACK in the packet of the last ACK is let through *)
isDuplicateOrOutOfOrderAck_Strict(hh, withPacketNumber) ==
    withPacketNumber < hh.largestReceivedPacketWithAck

(* Line 164: a duplicate or an out-of-order ACK *)
isDuplicateOrOutOfOrderAck(hh, withPacketNumber) ==
    withPacketNumber <= hh.largestReceivedPacketWithAck

(* A fault: an ACK for LargestInOrderAcked itself is not taken as repeated *)
isRepeatedAck_Strict(hh, ackFrame) == ackFrame.LargestAcked < hh.LargestInOrderAcked

(* Line 171: an ACK that does not have a higher LargestAcked *)
isRepeatedAck(hh, ackFrame) == ackFrame.LargestAcked <= hh.LargestInOrderAcked

(* Lines 176-180 *)
acksSkippedPacket(hh, ackFrame) ==
    \E i \in 1..Len(hh.skippedPackets) : AcksPacket(ackFrame, hh.skippedPackets[i])

(* Lines 222-227: the ack range index for the packet number, given the      *)
(* index the loop has reached                                               *)
nextAckRangeIndex(ackFrame, ackRangeIndex, packetNumber) ==
    LET n        == Len(ackFrame.AckRanges)
        ackRange == ackFrame.AckRanges[n - ackRangeIndex]
    IN  IF packetNumber > ackRange.LastPacketNumber /\ ackRangeIndex < n - 1
        THEN ackRangeIndex + 1
        ELSE ackRangeIndex

(* Lines 230-233 and 244-247: the element is acked *)
scanAck(s, pos) ==
    LET packet == s.h.packetHistory[pos]
    IN  [ackPacket(s, pos) EXCEPT !.ackedPackets = Append(@, PacketInfo(packet))]

(* A fault: a packet declared lost is not put on the list of lost packets *)
scanNack_Unreported(s, pos) == nackPacket(s, pos).s

(* Lines 197-204 and 235-241: the element is nacked *)
scanNack(s, pos) ==
    LET r == nackPacket(s, pos)
    IN  IF r.p # <<>>
        THEN [r.s EXCEPT !.lostPackets = Append(@, PacketInfo(r.p[1]))]
        ELSE r.s

(* The loop of lines 189-249 from the element at pos on.  The loop keeps    *)
(* the successor before it handles an element: after a removal the          *)
(* successor stands at the same position.                                   *)
RECURSIVE scanPacketHistory(_, _, _)
scanPacketHistory(s, ackFrame, pos) ==
    IF ~HasElement(s.h.packetHistory, pos) THEN s
    ELSE
    LET l            == s.h.packetHistory
        packet       == l[pos]
        packetNumber == packet.PacketNumber
        next(s2)     == IF Len(s2.h.packetHistory) < Len(l) THEN pos ELSE pos + 1
    IN  IF packetNumber < ackFrame.LowestAcked
        THEN LET s2 == scanNack(s, pos)
             IN  scanPacketHistory(s2, ackFrame, next(s2))
        ELSE
        LET s1 == IF packetNumber = s.h.LargestAcked
                  THEN [s EXCEPT !.calls = Append(@, UpdateRTT(now - packet.SendTime, now))]
                  ELSE s
        IN  IF packetNumber > ackFrame.LargestAcked THEN s1
            ELSE IF HasMissingRanges(ackFrame)
            THEN LET idx      == nextAckRangeIndex(ackFrame, s1.ackRangeIndex, packetNumber)
                     ackRange == ackFrame.AckRanges[Len(ackFrame.AckRanges) - idx]
                     s2       == [s1 EXCEPT !.ackRangeIndex = idx]
                     s3       == IF packetNumber >= ackRange.FirstPacketNumber
                                 THEN scanAck(s2, pos)
                                 ELSE scanNack(s2, pos)
                 IN  scanPacketHistory(s3, ackFrame, next(s3))
            ELSE LET s3 == scanAck(s1, pos)
                 IN  scanPacketHistory(s3, ackFrame, next(s3))

(* The method: the handler after it, the calls it made, what it returned *)
receivedAck(hh, ackFrame, withPacketNumber) ==
    IF isAckForUnsentPacket(hh, ackFrame)
    THEN [h |-> hh, calls |-> <<>>, err |-> errAckForUnsentPacket]
    ELSE IF isDuplicateOrOutOfOrderAck(hh, withPacketNumber)
    THEN [h |-> hh, calls |-> <<>>, err |-> ErrDuplicateOrOutOfOrderAck]
    ELSE
    LET h1 == [hh EXCEPT !.largestReceivedPacketWithAck = withPacketNumber]
    IN  IF isRepeatedAck(h1, ackFrame)
        THEN [h |-> h1, calls |-> <<>>, err |-> Nil]
        ELSE IF acksSkippedPacket(h1, ackFrame)
        THEN [h |-> h1, calls |-> <<>>, err |-> ErrAckForSkippedPacket]
        ELSE
        LET h2 == [h1 EXCEPT !.LargestAcked = ackFrame.LargestAcked]
            s  == scanPacketHistory(
                      [h |-> h2, calls |-> <<>>, ackRangeIndex |-> 0,
                       ackedPackets |-> <<>>, lostPackets |-> <<>>],
                      ackFrame, Front(h2.packetHistory))
            h3 == garbageCollectSkippedPackets(s.h)
        IN  [h |-> h3,
             calls |-> s.calls \o
                       <<StopWaitingReceivedAck(ackFrame),
                         OnCongestionEvent(TRUE, BytesInFlight(h3),
                                           s.ackedPackets, s.lostPackets)>>,
             err |-> Nil]

ReceivedAck(ackFrame, withPacketNumber) ==
    /\ h' = receivedAck(h, ackFrame, withPacketNumber).h
    /\ now' = now

----------------------------------------------------------------------------
(* The retransmission timeout, lines 313-349.  retransmissionDelay is what  *)
(* congestion.RetransmissionDelay() answers.                                *)

getRTO(retransmissionDelay) ==
    LET rto == IF retransmissionDelay = 0
               THEN DefaultRetransmissionTime
               ELSE retransmissionDelay
    IN  Max(rto, MinRetransmissionTime)

TimeOfFirstRTO(hh, retransmissionDelay) ==
    IF hh.lastSentPacketTime = ZeroTime
    THEN ZeroTime
    ELSE hh.lastSentPacketTime + getRTO(retransmissionDelay)

(* Lines 318-322: the elements the loop does not pass over *)
rtoCandidates(hh) ==
    {pos \in 1..Len(hh.packetHistory) :
        ~(hh.packetHistory[pos].PacketNumber < hh.LargestInOrderAcked)}

(* A fault: the packet is queued before the congestion controller is told *)
maybeQueuePacketsRTO_QueuesFirst(s, retransmissionDelay) ==
    IF now < TimeOfFirstRTO(s.h, retransmissionDelay) THEN s
    ELSE IF rtoCandidates(s.h) = {} THEN s
    ELSE
    LET pos         == SetMin(rtoCandidates(s.h))
        packet      == s.h.packetHistory[pos]
        packetsLost == <<PacketInfo(packet)>>
        s1          == queuePacketForRetransmission(s, pos)
    IN  [s1 EXCEPT !.calls = @ \o
            <<OnCongestionEvent(FALSE, BytesInFlight(s1.h), <<>>, packetsLost),
              OnRetransmissionTimeout(TRUE)>>]

maybeQueuePacketsRTO(s, retransmissionDelay) ==
    IF now < TimeOfFirstRTO(s.h, retransmissionDelay) THEN s
    ELSE IF rtoCandidates(s.h) = {} THEN s
    ELSE
    LET pos         == SetMin(rtoCandidates(s.h))
        packet      == s.h.packetHistory[pos]
        packetsLost == <<PacketInfo(packet)>>
        s1          == [s EXCEPT !.calls = @ \o
                           <<OnCongestionEvent(FALSE, BytesInFlight(s.h), <<>>, packetsLost),
                             OnRetransmissionTimeout(TRUE)>>]
    IN  queuePacketForRetransmission(s1, pos)

(* ProbablyHasPacketForRetransmission, lines 268-271 *)
probablyHasPacketForRetransmission(hh, retransmissionDelay) ==
    LET s == maybeQueuePacketsRTO([h |-> hh, calls |-> <<>>], retransmissionDelay)
    IN  [h |-> s.h, calls |-> s.calls, has |-> Len(s.h.retransmissionQueue) > 0]

ProbablyHasPacketForRetransmission(retransmissionDelay) ==
    /\ h' = probablyHasPacketForRetransmission(h, retransmissionDelay).h
    /\ now' = now

(* A fault: the queue is used as a FIFO, the oldest record is taken *)
dequeuePacketForRetransmission_TakesOldest(hh, retransmissionDelay) ==
    LET r     == probablyHasPacketForRetransmission(hh, retransmissionDelay)
        queue == r.h.retransmissionQueue
    IN  IF ~r.has
        THEN [h |-> r.h, calls |-> r.calls, packet |-> <<>>]
        ELSE [h |-> [r.h EXCEPT !.retransmissionQueue = Tail(queue)],
              calls |-> r.calls,
              packet |-> <<Head(queue)>>]

(* DequeuePacketForRetransmission, lines 273-287: packet holds the packet   *)
(* returned, and is empty for nil                                           *)
dequeuePacketForRetransmission(hh, retransmissionDelay) ==
    LET r        == probablyHasPacketForRetransmission(hh, retransmissionDelay)
        queue    == r.h.retransmissionQueue
        queueLen == Len(queue)
    IN  IF ~r.has
        THEN [h |-> r.h, calls |-> r.calls, packet |-> <<>>]
        ELSE [h |-> [r.h EXCEPT !.retransmissionQueue = SubSeq(queue, 1, queueLen - 1)],
              calls |-> r.calls,
              packet |-> <<queue[queueLen]>>]

DequeuePacketForRetransmission(retransmissionDelay) ==
    /\ h' = dequeuePacketForRetransmission(h, retransmissionDelay).h
    /\ now' = now

----------------------------------------------------------------------------

Next ==
    \/ \E n \in 1..MaxPacketNumber, len \in 0..MaxLength : SentPacket(n, len)
    \/ \E ackFrame \in AckFrames, c \in 1..MaxCarrier : ReceivedAck(ackFrame, c)
    \/ \E d \in 0..MaxDelay : ProbablyHasPacketForRetransmission(d)
    \/ \E d \in 0..MaxDelay : DequeuePacketForRetransmission(d)
    \/ Tick

Spec == Init /\ [][Next]_vars

----------------------------------------------------------------------------
(* What the properties speak of *)

PacketNumbers == 1..MaxPacketNumber

Carriers == 1..MaxCarrier

Delays == 0..MaxDelay

RECURSIVE SumOfLengths(_)
SumOfLengths(l) == IF l = <<>> THEN 0 ELSE Head(l).Length + SumOfLengths(Tail(l))

NumbersOf(l) == {l[i].PacketNumber : i \in 1..Len(l)}

SkippedSet(hh) == {hh.skippedPackets[i] : i \in 1..Len(hh.skippedPackets)}

(* The call ReceivedAck(ackFrame, c) on hh gets to the loop over the history *)
ReachesScan(hh, ackFrame, c) ==
    /\ ackFrame.LargestAcked <= hh.lastSentPacketNumber
    /\ c > hh.largestReceivedPacketWithAck
    /\ ackFrame.LargestAcked > hh.LargestInOrderAcked
    /\ \A p \in SkippedSet(hh) : ~AcksPacket(ackFrame, p)

----------------------------------------------------------------------------
(* C1: in every reachable state bytesInFlight is the sum of the lengths of  *)
(* the records in the packet history, whatever sends, acks, RTO checks and  *)
(* dequeues, accepted or rejected, led there.                               *)
C1_BytesInFlightIsSumOfHistory ==
    h.bytesInFlight = SumOfLengths(h.packetHistory)

(* C1's case: records are outstanding after an ack removed a record, a loss *)
(* was declared and lengths differ.                                         *)
C1_Witness ==
    /\ Len(h.packetHistory) >= 2
    /\ h.packetHistory[1].Length # h.packetHistory[2].Length
    /\ h.LargestAcked > 0
    /\ Len(h.retransmissionQueue) > 0
    /\ h.bytesInFlight = SumOfLengths(h.packetHistory)

(* C2: no record of the packet history has a packet number at or below      *)
(* LargestInOrderAcked: GetLeastUnacked() never exceeds the lowest number   *)
(* in the history.                                                          *)
C2_NoHistoryRecordBelowLeastUnacked ==
    \A i \in 1..Len(h.packetHistory) :
        GetLeastUnacked(h) <= h.packetHistory[i].PacketNumber

(* C3: LargestInOrderAcked <= LargestAcked <= lastSentPacketNumber in every *)
(* reachable state.                                                         *)
C3_AckedNumbersOrdered ==
    /\ h.LargestInOrderAcked <= h.LargestAcked
    /\ h.LargestAcked <= h.lastSentPacketNumber

(* C4: after any ReceivedAck call, whatever it returns, no skipped packet   *)
(* number at or below LargestInOrderAcked is left in skippedPackets.        *)
C4_NoSkippedBelowInOrderAckedAfterAck ==
    \A ackFrame \in AckFrames, c \in Carriers :
        LET after == receivedAck(h, ackFrame, c).h
        IN  \A p \in SkippedSet(after) : p > after.LargestInOrderAcked

(* The skipped number p was evicted: it is gone and the set is full *)
Evicted(after, p) ==
    /\ p \notin SkippedSet(after)
    /\ Len(after.skippedPackets) = MaxTrackedSkippedPackets

(* No method call takes a skipped number out of skippedPackets but by      *)
(* eviction in SentPacket or by garbage collection in a ReceivedAck that    *)
(* gets to the loop over the history.                                       *)
SkippedStayUntilEvictedOrCollected(hh) ==
    /\ \A n \in PacketNumbers, len \in 0..MaxLength :
          LET after == sentPacket(hh, n, len).h
          IN  \A p \in SkippedSet(hh) : p \in SkippedSet(after) \/ Evicted(after, p)
    /\ \A ackFrame \in AckFrames, c \in Carriers :
          LET after == receivedAck(hh, ackFrame, c).h
          IN  IF ReachesScan(hh, ackFrame, c)
              THEN \E k \in 0..Len(hh.skippedPackets) :
                      after.skippedPackets =
                          SubSeq(hh.skippedPackets, k + 1, Len(hh.skippedPackets))
              ELSE after.skippedPackets = hh.skippedPackets
    /\ \A d \in Delays :
          /\ probablyHasPacketForRetransmission(hh, d).h.skippedPackets = hh.skippedPackets
          /\ dequeuePacketForRetransmission(hh, d).h.skippedPackets = hh.skippedPackets

(* C5, skip safety: a send that leaves a gap after the last sent number     *)
(* puts every number of the gap into skippedPackets, where it stays until   *)
(* it is evicted or garbage-collected; and an ack with a fresh carrier and  *)
(* no unsent number that covers a skipped number returns                    *)
(* ErrAckForSkippedPacket and leaves the history as it is.                  *)
C5_SkipSafety ==
    /\ \A n \in PacketNumbers, len \in 0..MaxLength :
          (h.lastSentPacketNumber >= 1 /\ n > h.lastSentPacketNumber + 1) =>
              LET after == sentPacket(h, n, len).h
              IN  \A p \in (h.lastSentPacketNumber + 1)..(n - 1) :
                      p \in SkippedSet(after) \/ Evicted(after, p)
    /\ SkippedStayUntilEvictedOrCollected(h)
    /\ \A ackFrame \in AckFrames, c \in Carriers :
          ( /\ ackFrame.LargestAcked <= h.lastSentPacketNumber
            /\ c > h.largestReceivedPacketWithAck
            /\ \E p \in SkippedSet(h) : AcksPacket(ackFrame, p) ) =>
              LET r == receivedAck(h, ackFrame, c)
              IN  /\ r.err = ErrAckForSkippedPacket
                  /\ r.h.packetHistory = h.packetHistory
                  /\ r.h.retransmissionQueue = h.retransmissionQueue

(* The same call made twice *)
ReceivedAckTwice(ackFrame, c) ==
    LET first == receivedAck(h, ackFrame, c)
    IN  [first |-> first, second |-> receivedAck(first.h, ackFrame, c)]

(* C6 as stated, duplicate-ack idempotence: ReceivedAck made a second time  *)
(* with the same frame and the same carrier number returns                  *)
(* ErrDuplicateOrOutOfOrderAck, changes nothing and calls nobody.           *)
C6_SecondAckIsDuplicate ==
    \A ackFrame \in AckFrames, c \in Carriers :
        LET r == ReceivedAckTwice(ackFrame, c)
        IN  /\ r.second.err = ErrDuplicateOrOutOfOrderAck
            /\ r.second.h = r.first.h
            /\ r.second.calls = <<>>

(* C6 as amended: the second call changes nothing and calls nobody; it      *)
(* returns ErrDuplicateOrOutOfOrderAck, unless the frame's LargestAcked is  *)
(* above lastSentPacketNumber, when it returns errAckForUnsentPacket as the *)
(* first call did.                                                          *)
C6_SecondAckChangesNothing ==
    \A ackFrame \in AckFrames, c \in Carriers :
        LET r == ReceivedAckTwice(ackFrame, c)
        IN  /\ r.second.err = IF ackFrame.LargestAcked > h.lastSentPacketNumber
                              THEN errAckForUnsentPacket
                              ELSE ErrDuplicateOrOutOfOrderAck
            /\ r.second.h = r.first.h
            /\ r.second.calls = <<>>

(* C6's case: the first call acked and declared lost, the second is a       *)
(* duplicate.                                                               *)
C6_Witness ==
    \E ackFrame \in AckFrames, c \in Carriers :
        LET r == ReceivedAckTwice(ackFrame, c)
        IN  /\ r.first.err = Nil
            /\ Len(r.first.h.packetHistory) < Len(h.packetHistory)
            /\ Len(r.first.h.retransmissionQueue) > Len(h.retransmissionQueue)
            /\ r.second.err = ErrDuplicateOrOutOfOrderAck
            /\ r.second.h = r.first.h

(* C7, stale-ack no-op: an ack with a fresh carrier number whose            *)
(* LargestAcked is not above LargestInOrderAcked returns nil, sets          *)
(* largestReceivedPacketWithAck and changes nothing else; it makes no call. *)
C7_StaleAckOnlyRecordsCarrier ==
    \A ackFrame \in AckFrames, c \in Carriers :
        ( /\ c > h.largestReceivedPacketWithAck
          /\ ackFrame.LargestAcked <= h.LargestInOrderAcked ) =>
            LET r == receivedAck(h, ackFrame, c)
            IN  /\ r.err = Nil
                /\ r.h = [h EXCEPT !.largestReceivedPacketWithAck = c]
                /\ r.calls = <<>>

(* C7's case: a stale ack with a fresh carrier that covers a record still   *)
(* in the history, or a skipped number, or comes while records are queued.  *)
C7_Witness ==
    \E ackFrame \in AckFrames, c \in Carriers :
        /\ c > h.largestReceivedPacketWithAck
        /\ ackFrame.LargestAcked <= h.LargestInOrderAcked
        /\ ackFrame.LargestAcked = h.LargestInOrderAcked
        /\ Len(h.packetHistory) > 0
        /\ Len(h.retransmissionQueue) > 0
        /\ receivedAck(h, ackFrame, c).h.largestReceivedPacketWithAck = c

(* C8: SentPacket with length 0 and a number above lastSentPacketNumber     *)
(* returns the empty-packet error, changes nothing and calls nobody.        *)
C8_EmptyPacketChangesNothing ==
    \A n \in PacketNumbers :
        n > h.lastSentPacketNumber =>
            LET r == sentPacket(h, n, 0)
            IN  /\ r.err = errEmptyPacket
                /\ r.h = h
                /\ r.calls = <<>>

RECURSIVE PacketInfos(_)
PacketInfos(l) == IF l = <<>> THEN <<>> ELSE <<PacketInfo(Head(l))>> \o PacketInfos(Tail(l))

Ascending(infos) == \A i, j \in 1..Len(infos) : i < j => infos[i].Number < infos[j].Number

CallsNamed(calls, name) == {i \in 1..Len(calls) : calls[i].call = name}

(* What a ReceivedAck call did to the history: the records it moved to the  *)
(* retransmission queue and the records it removed without queueing them.   *)
MovedToQueue(before, after) ==
    SubSeq(after.retransmissionQueue,
           Len(before.retransmissionQueue) + 1, Len(after.retransmissionQueue))

RemovedAsAcked(before, after) ==
    LET gone == (NumbersOf(before.packetHistory) \ NumbersOf(after.packetHistory))
                    \ NumbersOf(MovedToQueue(before, after))
        IsGone(p) == p.PacketNumber \in gone
    IN  SelectSeq(before.packetHistory, IsGone)

(* C9: a ReceivedAck call that gets to the loop over the history makes      *)
(* exactly one OnCongestionEvent call, as its last call, hence after the    *)
(* RTT update and after every change of the history; the call names as      *)
(* acked exactly the records the call removed as acked, as lost exactly the *)
(* records it moved to the retransmission queue, both in ascending order,   *)
(* and passes the bytesInFlight the call leaves.  A call that is rejected   *)
(* or stale makes no OnCongestionEvent call.                                *)
C9_OneCongestionEventPerScan ==
    \A ackFrame \in AckFrames, c \in Carriers :
        LET r      == receivedAck(h, ackFrame, c)
            events == CallsNamed(r.calls, "OnCongestionEvent")
        IN  IF ReachesScan(h, ackFrame, c)
            THEN /\ Cardinality(events) = 1
                 /\ events = {Len(r.calls)}
                 /\ LET e == r.calls[Len(r.calls)]
                    IN  /\ e.rttUpdated = TRUE
                        /\ e.bytesInFlight = r.h.bytesInFlight
                        /\ SubSeq(r.h.retransmissionQueue, 1, Len(h.retransmissionQueue))
                               = h.retransmissionQueue
                        /\ e.lostPackets = PacketInfos(MovedToQueue(h, r.h))
                        /\ e.ackedPackets = PacketInfos(RemovedAsAcked(h, r.h))
                        /\ Ascending(e.lostPackets)
                        /\ Ascending(e.ackedPackets)
            ELSE events = {}

(* C9's case: one call acks two records, declares one lost and samples the  *)
(* RTT.                                                                     *)
C9_Witness ==
    \E ackFrame \in AckFrames, c \in Carriers :
        LET r == receivedAck(h, ackFrame, c)
        IN  /\ ReachesScan(h, ackFrame, c)
            /\ CallsNamed(r.calls, "UpdateRTT") # {}
            /\ Len(r.calls[Len(r.calls)].ackedPackets) >= 2
            /\ Len(r.calls[Len(r.calls)].lostPackets) >= 1

(* The RTO check declared the record at pos lost *)
RTOFiredOn(before, s, pos) ==
    LET r == before.packetHistory[pos]
    IN  /\ s.calls = <<OnCongestionEvent(FALSE, before.bytesInFlight, <<>>,
                                         <<PacketInfo(r)>>),
                       OnRetransmissionTimeout(TRUE),
                       QueuedRetransmissionForPacketNumber(r.PacketNumber)>>
        /\ s.h.packetHistory = Remove(before.packetHistory, pos)
        /\ s.h.retransmissionQueue = Append(before.retransmissionQueue, r)
        /\ s.h.bytesInFlight = before.bytesInFlight - r.Length

(* C10: when the RTO check fires on a record it first makes the             *)
(* OnCongestionEvent call that names the record as lost, with the           *)
(* bytesInFlight from before the record is taken out, then                  *)
(* OnRetransmissionTimeout(true), and only then moves the record from the   *)
(* history to the retransmission queue and takes its length off             *)
(* bytesInFlight; a method call that runs the check takes at most one       *)
(* record out of the history.                                               *)
C10_RTOReportsLossThenQueuesOne ==
    \A d \in Delays :
        LET s == maybeQueuePacketsRTO([h |-> h, calls |-> <<>>], d)
        IN  /\ \/ s.h = h /\ s.calls = <<>>
               \/ \E pos \in 1..Len(h.packetHistory) : RTOFiredOn(h, s, pos)
            /\ Len(probablyHasPacketForRetransmission(h, d).h.packetHistory)
                   >= Len(h.packetHistory) - 1
            /\ Len(dequeuePacketForRetransmission(h, d).h.packetHistory)
                   >= Len(h.packetHistory) - 1

(* C10's case: the deadline has passed with several records outstanding and *)
(* the check fires on one of them.                                          *)
C10_Witness ==
    \E d \in Delays :
        LET s == maybeQueuePacketsRTO([h |-> h, calls |-> <<>>], d)
        IN  /\ Len(h.packetHistory) >= 2
            /\ h.bytesInFlight > 0
            /\ Len(s.h.packetHistory) = Len(h.packetHistory) - 1
            /\ Len(s.calls) = 3

(* The RTO check run twice in a row, with no send between the two runs *)
RTOCheckTwice(d) ==
    LET first == probablyHasPacketForRetransmission(h, d)
    IN  [first |-> first, second |-> probablyHasPacketForRetransmission(first.h, d)]

(* C11: the RTO fires once per deadline: when a call that runs the RTO      *)
(* check has moved a record from the history to the retransmission queue,   *)
(* a further call of ProbablyHasPacketForRetransmission or of               *)
(* DequeuePacketForRetransmission with no send in between moves no other    *)
(* record out of the history.                                               *)
C11_RTOFiresOncePerDeadline ==
    \A d \in Delays :
        LET r == RTOCheckTwice(d)
        IN  Len(r.first.h.packetHistory) < Len(h.packetHistory) =>
                /\ r.second.h.packetHistory = r.first.h.packetHistory
                /\ dequeuePacketForRetransmission(r.first.h, d).h.packetHistory
                       = r.first.h.packetHistory

(* C12, belated ack after RTO: when the RTO check has moved a record to the *)
(* retransmission queue and an ack with a fresh carrier number that covers  *)
(* the record's number comes next (for no unsent and no skipped number),    *)
(* ReceivedAck returns nil, the record is not back in the history, it is    *)
(* still in the retransmission queue, and the acked list of the             *)
(* OnCongestionEvent call holds the record's number and length.             *)
C12_BelatedAckAfterRTO ==
    \A d \in Delays, pos \in 1..Len(h.packetHistory) :
        LET s == maybeQueuePacketsRTO([h |-> h, calls |-> <<>>], d)
            r == h.packetHistory[pos]
        IN  RTOFiredOn(h, s, pos) =>
            \A ackFrame \in AckFrames, c \in Carriers :
                ( /\ c > s.h.largestReceivedPacketWithAck
                  /\ ackFrame.LargestAcked <= s.h.lastSentPacketNumber
                  /\ AcksPacket(ackFrame, r.PacketNumber)
                  /\ \A p \in SkippedSet(s.h) : ~AcksPacket(ackFrame, p) ) =>
                    LET a == receivedAck(s.h, ackFrame, c)
                    IN  /\ a.err = Nil
                        /\ r.PacketNumber \notin NumbersOf(a.h.packetHistory)
                        /\ SubSeq(a.h.retransmissionQueue, 1, Len(s.h.retransmissionQueue))
                               = s.h.retransmissionQueue
                        /\ \E i \in CallsNamed(a.calls, "OnCongestionEvent") :
                              \E j \in 1..Len(a.calls[i].ackedPackets) :
                                  a.calls[i].ackedPackets[j] = PacketInfo(r)

(* C13: when a ReceivedAck call that gets to the loop over the history      *)
(* returns and no record with a number at or below the frame's LargestAcked *)
(* is left in the history, LargestInOrderAcked is at least the frame's      *)
(* LargestAcked.                                                            *)
C13_InOrderAckedReachesLargestAcked ==
    \A ackFrame \in AckFrames, c \in Carriers :
        LET after == receivedAck(h, ackFrame, c).h
        IN  ( /\ ReachesScan(h, ackFrame, c)
              /\ \A n \in NumbersOf(after.packetHistory) : n > ackFrame.LargestAcked ) =>
                after.LargestInOrderAcked >= ackFrame.LargestAcked

----------------------------------------------------------------------------
(* The handler under frames of up to three ack ranges: packets of one       *)
(* length, numbers up to MaxScanPacketNumber.                               *)

MaxScanPacketNumber == 5

ScanPacketNumbers == 1..MaxScanPacketNumber

ScanAckFrames == {FrameOf(S) : S \in (SUBSET ScanPacketNumbers) \ {{}}}

NextScan ==
    \/ \E n \in ScanPacketNumbers : SentPacket(n, 1)
    \/ \E ackFrame \in ScanAckFrames, c \in Carriers : ReceivedAck(ackFrame, c)
    \/ \E d \in Delays : ProbablyHasPacketForRetransmission(d)
    \/ Tick

SpecScan == Init /\ [][NextScan]_vars

(* What a ReceivedAck call did to the record r of the history before it *)
LeftUntouched(r, after) ==
    \E i \in 1..Len(after.packetHistory) : after.packetHistory[i] = r

Nacked(r, before, after) ==
    LET nacked == [r EXCEPT !.MissingReports = @ + 1]
        moved  == MovedToQueue(before, after)
    IN  \/ \E i \in 1..Len(after.packetHistory) : after.packetHistory[i] = nacked
        \/ \E i \in 1..Len(moved) : moved[i] = nacked

Acked(r, before, after, ackedPackets) ==
    /\ r.PacketNumber \notin NumbersOf(after.packetHistory)
    /\ r.PacketNumber \notin NumbersOf(MovedToQueue(before, after))
    /\ \E i \in 1..Len(ackedPackets) : ackedPackets[i] = PacketInfo(r)

(* C15: in a ReceivedAck call that gets to the loop over the history, a     *)
(* record with a number from LowestAcked to LargestAcked is acked if the    *)
(* frame acknowledges its number (AcksPacket) and is nacked if it does not, *)
(* whatever the frame's ranges and whatever records the history holds; a    *)
(* record below LowestAcked is nacked and a record above LargestAcked is    *)
(* left as it is.                                                           *)
C15_ScanClassifiesAsAcksPacket ==
    \A ackFrame \in ScanAckFrames, c \in Carriers :
        ReachesScan(h, ackFrame, c) =>
            LET r     == receivedAck(h, ackFrame, c)
                acked == r.calls[Len(r.calls)].ackedPackets
            IN  \A i \in 1..Len(h.packetHistory) :
                    LET rec == h.packetHistory[i]
                        n   == rec.PacketNumber
                    IN  IF n < ackFrame.LowestAcked THEN Nacked(rec, h, r.h)
                        ELSE IF n > ackFrame.LargestAcked THEN LeftUntouched(rec, r.h)
                        ELSE IF AcksPacket(ackFrame, n) THEN Acked(rec, h, r.h, acked)
                        ELSE Nacked(rec, h, r.h)

----------------------------------------------------------------------------
(* The RTO deadline for the delay d has passed: line 314 does not return *)
RTODeadlinePassed(hh, d) == ~(now < TimeOfFirstRTO(hh, d))

(* C16: whenever the RTO deadline has passed and the history is not empty,  *)
(* the RTO check moves the front of the history, its lowest-numbered        *)
(* record, to the retransmission queue: the test of line 320 never passes   *)
(* over a record.                                                           *)
C16_RTOTakesFrontOfHistory ==
    \A d \in Delays :
        (RTODeadlinePassed(h, d) /\ Len(h.packetHistory) > 0) =>
            /\ rtoCandidates(h) = 1..Len(h.packetHistory)
            /\ RTOFiredOn(h, maybeQueuePacketsRTO([h |-> h, calls |-> <<>>], d), 1)
            /\ \A i \in 1..Len(h.packetHistory) :
                  h.packetHistory[1].PacketNumber <= h.packetHistory[i].PacketNumber

(* Every record of the history after is a record of the history before     *)
(* with the same MissingReports                                             *)
KeepsMissingReports(before, after) ==
    \A i \in 1..Len(after.packetHistory) :
        LET rec == after.packetHistory[i]
        IN  rec.PacketNumber \in NumbersOf(before.packetHistory) =>
                \E j \in 1..Len(before.packetHistory) : before.packetHistory[j] = rec

(* C17, loss threshold: no record of the history has more missing reports   *)
(* than RetransmissionThreshold; a ReceivedAck call moves a record to the   *)
(* retransmission queue, and names it as lost, exactly when its nack takes  *)
(* the record's MissingReports above the threshold; and while a record is   *)
(* in the history no method call lowers its MissingReports.                 *)
C17_LossThreshold ==
    /\ \A i \in 1..Len(h.packetHistory) :
          h.packetHistory[i].MissingReports <= RetransmissionThreshold
    /\ \A ackFrame \in AckFrames, c \in Carriers :
          LET r     == receivedAck(h, ackFrame, c)
              moved == MovedToQueue(h, r.h)
          IN  /\ SubSeq(r.h.retransmissionQueue, 1, Len(h.retransmissionQueue))
                     = h.retransmissionQueue
              /\ \A j \in 1..Len(moved) :
                    /\ moved[j].MissingReports = RetransmissionThreshold + 1
                    /\ \E i \in 1..Len(h.packetHistory) :
                          h.packetHistory[i] =
                              [moved[j] EXCEPT !.MissingReports = RetransmissionThreshold]
                    /\ \E k \in CallsNamed(r.calls, "OnCongestionEvent") :
                          \E m \in 1..Len(r.calls[k].lostPackets) :
                              r.calls[k].lostPackets[m] = PacketInfo(moved[j])
              /\ \A i \in 1..Len(r.h.packetHistory) :
                    LET rec == r.h.packetHistory[i]
                    IN  /\ rec.MissingReports <= RetransmissionThreshold
                        /\ \E j \in 1..Len(h.packetHistory) :
                              \/ h.packetHistory[j] = rec
                              \/ h.packetHistory[j] = [rec EXCEPT !.MissingReports = @ - 1]
    /\ \A n \in PacketNumbers, len \in 0..MaxLength :
          KeepsMissingReports(h, sentPacket(h, n, len).h)
    /\ \A d \in Delays :
          /\ KeepsMissingReports(h, probablyHasPacketForRetransmission(h, d).h)
          /\ KeepsMissingReports(h, dequeuePacketForRetransmission(h, d).h)

(* C17's case: one ReceivedAck call nacks two records; the one is at the    *)
(* threshold and is moved to the queue, the other is below it and stays.    *)
C17_Witness ==
    \E ackFrame \in AckFrames, c \in Carriers :
        LET r     == receivedAck(h, ackFrame, c)
            moved == MovedToQueue(h, r.h)
        IN  /\ ReachesScan(h, ackFrame, c)
            /\ Len(moved) >= 1
            /\ moved[1].MissingReports = RetransmissionThreshold + 1
            /\ \E i \in 1..Len(r.h.packetHistory), j \in 1..Len(h.packetHistory) :
                  /\ h.packetHistory[j].MissingReports = 0
                  /\ r.h.packetHistory[i] =
                         [h.packetHistory[j] EXCEPT !.MissingReports = 1]

(* The skipped numbers a send takes out of skippedPackets: those of before  *)
(* and of the gap up to n that are not there after                          *)
EvictedBySend(before, n, after) ==
    (SkippedSet(before) \cup ((before.lastSentPacketNumber + 1)..(n - 1)))
        \ SkippedSet(after)

(* C18: in every reachable state skippedPackets is strictly ascending,      *)
(* hence without duplicates, and holds at most MaxTrackedSkippedPackets     *)
(* numbers; a send that has to evict evicts the lowest numbers; this holds  *)
(* after any sends, the rejected ones included.                             *)
C18_SkippedPacketsAscendingAndBounded ==
    /\ \A i, j \in 1..Len(h.skippedPackets) :
          i < j => h.skippedPackets[i] < h.skippedPackets[j]
    /\ Len(h.skippedPackets) <= MaxTrackedSkippedPackets
    /\ \A n \in PacketNumbers, len \in 0..MaxLength :
          LET after == sentPacket(h, n, len).h
          IN  n > h.lastSentPacketNumber =>
                  \A e \in EvictedBySend(h, n, after), p \in SkippedSet(after) : e < p

(* C19: LargestAcked never decreases and is the highest LargestAcked of the *)
(* frames that got to the loop over the history: a ReceivedAck call that    *)
(* gets there leaves the higher of the old value and the frame's, every     *)
(* other call leaves the value as it is.                                    *)
C19_LargestAckedIsHighestSeen ==
    /\ \A ackFrame \in AckFrames, c \in Carriers :
          receivedAck(h, ackFrame, c).h.LargestAcked =
              IF ReachesScan(h, ackFrame, c)
              THEN Max(h.LargestAcked, ackFrame.LargestAcked)
              ELSE h.LargestAcked
    /\ \A n \in PacketNumbers, len \in 0..MaxLength :
          sentPacket(h, n, len).h.LargestAcked = h.LargestAcked
    /\ \A d \in Delays :
          /\ probablyHasPacketForRetransmission(h, d).h.LargestAcked = h.LargestAcked
          /\ dequeuePacketForRetransmission(h, d).h.LargestAcked = h.LargestAcked

----------------------------------------------------------------------------
(* The handler when the session keeps running the RTO check and the clock   *)
(* keeps going.                                                             *)

RTOCheck == \E d \in Delays : ProbablyHasPacketForRetransmission(d)

SpecRTO == Init /\ [][Next]_vars /\ WF_vars(RTOCheck) /\ WF_vars(Tick)

(* A step that is neither a send nor an ack *)
NoSendNoAck ==
    \/ \E d \in Delays : ProbablyHasPacketForRetransmission(d)
    \/ \E d \in Delays : DequeuePacketForRetransmission(d)
    \/ Tick

(* C20, RTO recovery: if from some point on no packet is sent and no ack is *)
(* received, the RTO deadline has passed and the RTO check keeps being run, *)
(* then eventually the history is empty and bytesInFlight is 0, and stays   *)
(* so: no record stays in the history for ever.                             *)
C20_RTOEmptiesHistory ==
    ( /\ <>[][NoSendNoAck]_vars
      /\ <>[](\E d \in Delays : RTODeadlinePassed(h, d)) )
        => <>[](h.packetHistory = <<>> /\ h.bytesInFlight = 0)

====
